---- MODULE Spec2Model ----
(***************************************************************************)
(* Model of two units of edx-platform:                                     *)
(*   - RandomizeModule (common/lib/xmodule/xmodule/randomize_module.py):   *)
(*     per-student choice of one child of a <randomize> block;             *)
(*   - the dump_to_neo4j management command                                *)
(*     (lms/djangoapps/courseware/management/commands/dump_to_neo4j.py).   *)
(*                                                                         *)
(* A child is identified by its location url (1..NumUrls); NameOf gives    *)
(* the location name of a url.  Two urls may carry the same name (same     *)
(* url_name under two categories).  None (0) is Python's None for a url,   *)
(* NoSeed (-1) is system.seed = None.                                      *)
(***************************************************************************)
EXTENDS Integers, Sequences, FiniteSets, TLC

\* ---------------------------------------------------------------- bounds
NumUrls == 2
MaxChildren == 2
MaxHistory == 2
MaxSeed == 1
NumCourses == 2
MaxEntities == 2

\* ------------------------------------------------------------- universes
None == 0
NoSeed == 0 - 1
Urls == 1..NumUrls
NameOf(u) == u % 2
Names == {NameOf(u) : u \in Urls}
Seeds == {NoSeed} \cup (0..MaxSeed)

Range(s) == {s[i] : i \in 1..Len(s)}
InSeq(x, s) == \E i \in 1..Len(s) : s[i] = x
DistinctSeqs(S, n) ==
    UNION {{s \in [1..k -> S] : \A i, j \in 1..k : i # j => s[i] # s[j]} : k \in 0..n}
IndexOf(x, s) == CHOOSE i \in 1..Len(s) : s[i] = x

VARIABLES
    children,          \* descriptor.get_children(): urls of the block's children, in order
    choice,            \* RandomizeFields.choice (user_state)
    history,           \* RandomizeFields.history (user_state)
    suspended,         \* RandomizeFields.suspended (settings): set of location names
    no_repeats,        \* xml attribute no_repeats
    use_randrange,     \* xml attribute use_randrange
    seed,              \* self.system.seed, fixed for the student
    alive,             \* a RandomizeModule instance exists (its __init__ returned)
    child_descriptor,  \* self.child_descriptor
    child,             \* self.child
    pre_choice,        \* value of choice when the last pick_choice started
    last,              \* the last operation ("edit": a write from outside the module) and how it ended
    \* dump_to_neo4j
    pc, idx, db, tx, attempts, failed, graphs

settings == <<suspended, no_repeats, use_randrange, seed>>
instance == <<alive, child_descriptor, child>>
rvars == <<children, choice, history, settings, instance, pre_choice, last>>
dvars == <<pc, idx, db, tx, attempts, failed, graphs>>
vars == <<rvars, dvars>>

\* ------------------------------------------------------- RandomizeModule

\* get_choices that forgets the history under no_repeats
GetChoices_KeepSeen(ch, hist, kids, norep, susp) ==
    SelectSeq(kids, LAMBDA u : ~(susp # {} /\ NameOf(u) \in susp))

\* get_choices that forgets the suspended list
GetChoices_KeepSuspended(ch, hist, kids, norep, susp) ==
    SelectSeq(kids, LAMBDA u : ~(ch = None /\ norep /\ InSeq(u, hist)))

\* get_choices: keys of the OrderedDict, in child order
GetChoices(ch, hist, kids, norep, susp) ==
    LET keep(u) == /\ ~(ch = None /\ norep /\ InSeq(u, hist))
                   /\ ~(susp # {} /\ NameOf(u) \in susp)
    IN SelectSeq(kids, keep)

\* get_choices() with the default arguments
AllChoices(ch, hist, kids) == GetChoices(ch, hist, kids, FALSE, {})

\* the reset condition with the test on the suspended list inverted
ResetCond_Suspended(ch, choices, all, susp) ==
    /\ InSeq(ch, all)
    /\ ~InSeq(ch, choices)
    /\ NameOf(ch) \in susp

\* "Children changed. Reset." condition of pick_choice
ResetCond(ch, choices, all, susp) ==
    /\ InSeq(ch, all)
    /\ ~InSeq(ch, choices)
    /\ NameOf(ch) \notin susp

\* a fresh choice that never uses the seed
NewChoice_Random(choices, sd, randrange, hist) ==
    IF Len(choices) > 0 THEN Range(choices)
    ELSE IF Len(hist) > 0 THEN {hist[Len(hist)]} ELSE {None}

\* the values pick_choice may assign when self.choice is None
NewChoice(choices, sd, randrange, hist) ==
    IF Len(choices) > 0
    THEN IF sd # NoSeed /\ ~randrange
         THEN {choices[(sd % Len(choices)) + 1]}
         ELSE Range(choices)
    ELSE IF Len(hist) > 0 THEN {hist[Len(hist)]} ELSE {None}

\* all_choices.get(self.choice)
Lookup(ch, all) == IF InSeq(ch, all) THEN ch ELSE None

\* get_child_descriptors
get_child_descriptors(cd) == IF cd = None THEN <<>> ELSE <<cd>>

NoInstance ==
    /\ alive' = FALSE
    /\ child_descriptor' = None
    /\ child' = None

\* RandomizeModule.__init__ : reads the settings, then pick_choice
pick_choice(randrange, norep, susp) ==
    LET choices == GetChoices(choice, history, children, norep, susp)
        all == AllChoices(choice, history, children)
        c1 == IF ResetCond(choice, choices, all, susp) THEN None ELSE choice
    IN \E c2 \in (IF c1 = None THEN NewChoice(choices, seed, randrange, history) ELSE {c1}) :
        LET cd == IF c2 # None THEN Lookup(c2, all) ELSE None
            kids == get_child_descriptors(cd)
            raised == c2 # None /\ Len(kids) # 1
        IN /\ choice' = c2
           /\ pre_choice' = choice
           /\ last' = [op |-> "pick", res |-> IF raised THEN "raise" ELSE "ok"]
           /\ IF raised
              THEN NoInstance
              ELSE /\ alive' = TRUE
                   /\ child_descriptor' = cd
                   /\ child' = IF c2 # None THEN kids[1] ELSE None
           /\ UNCHANGED <<children, history, settings, dvars>>

Instantiate == pick_choice(use_randrange, no_repeats, suspended)

\* get_choice_index raises ValueError when the choice is not among the choices
IndexRaises(ch, all) == ~InSeq(ch, all)

\* what student_view returns: the placeholder, the child's html, or an
\* exception out of get_choice_index
ViewResult(staff) ==
    IF child = None THEN "placeholder"
    ELSE IF staff /\ IndexRaises(choice, AllChoices(choice, history, children)) THEN "raise"
    ELSE "html"

\* student_view
student_view(staff) ==
    /\ alive
    /\ (child = None \/ InSeq(child, history) \/ Len(history) < MaxHistory)
    /\ pre_choice' = None
    /\ history' = IF child = None \/ InSeq(child, history)
                  THEN history ELSE Append(history, child)
    /\ last' = [op |-> "view", res |-> ViewResult(staff)]
    /\ UNCHANGED <<children, choice, settings, instance, dvars>>

\* the requests handle_ajax is called with: dispatch and data['choice']
\* ("str": not a number, "missing": no 'choice' key)
Requests ==
    [dispatch : {"next", "other"}, k : {"missing"}, v : {0}]
    \cup [dispatch : {"jump"}, k : {"int"}, v : (0 - (MaxChildren + 1))..(MaxChildren + 1)]
    \cup [dispatch : {"jump"}, k : {"str", "missing"}, v : {0}]

\* choices[i] with Python's indexing; None stands for IndexError
PyIndex(s, i) ==
    IF i >= 0 /\ i < Len(s) THEN s[i + 1]
    ELSE IF i < 0 /\ 0 - i <= Len(s) THEN s[Len(s) + i + 1]
    ELSE None

\* handle_ajax
handle_ajax(staff, req) ==
    /\ alive
    /\ pre_choice' = None
    /\ LET all == AllChoices(choice, history, children)
       IN IF ~staff
          THEN /\ last' = [op |-> "ajax", res |-> "ok"]
               /\ UNCHANGED choice
          ELSE IF IndexRaises(choice, all)
          THEN /\ last' = [op |-> "ajax", res |-> "raise"]
               /\ UNCHANGED choice
          ELSE LET index == IndexOf(choice, all) - 1
                   got == IF req.dispatch = "next" THEN PyIndex(all, index + 1)
                          ELSE IF req.dispatch = "jump" /\ req.k = "int" THEN PyIndex(all, req.v)
                          ELSE None
               IN /\ choice' = IF got # None THEN got ELSE choice
                  /\ last' = [op |-> "ajax",
                              res |-> IF req.dispatch = "jump" /\ req.k = "missing"
                                      THEN "raise" ELSE "ok"]
    /\ UNCHANGED <<children, history, settings, instance, dvars>>

\* the course is edited: a child is removed from the block, or one is appended
EditChildren ==
    /\ \/ \E i \in 1..Len(children) :
            children' = [j \in 1..(Len(children) - 1) |->
                            IF j < i THEN children[j] ELSE children[j + 1]]
       \/ \E u \in Urls \ Range(children) :
            /\ Len(children) < MaxChildren
            /\ children' = Append(children, u)
    /\ NoInstance
    /\ pre_choice' = None
    /\ last' = [op |-> "edit", res |-> "ok"]
    /\ UNCHANGED <<choice, history, settings, dvars>>

\* the course is edited: other settings of the block
EditSettings ==
    /\ \/ \E s \in SUBSET Names : s # suspended /\ suspended' = s
                                   /\ UNCHANGED <<no_repeats, use_randrange>>
       \/ no_repeats' = ~no_repeats /\ UNCHANGED <<suspended, use_randrange>>
       \/ use_randrange' = ~use_randrange /\ UNCHANGED <<suspended, no_repeats>>
    /\ NoInstance
    /\ pre_choice' = None
    /\ last' = [op |-> "edit", res |-> "ok"]
    /\ UNCHANGED <<children, choice, history, seed, dvars>>

\* user_state written from outside the module: the stored choice is cleared
ResetChoice ==
    /\ choice # None
    /\ choice' = None
    /\ NoInstance
    /\ pre_choice' = None
    /\ last' = [op |-> "edit", res |-> "ok"]
    /\ UNCHANGED <<children, history, settings, dvars>>

\* user_state written from outside the module: the history is wiped
WipeHistory ==
    /\ history # <<>>
    /\ history' = <<>>
    /\ NoInstance
    /\ pre_choice' = None
    /\ last' = [op |-> "edit", res |-> "ok"]
    /\ UNCHANGED <<children, choice, settings, dvars>>

RInit ==
    /\ children \in DistinctSeqs(Urls, MaxChildren)
    /\ choice = None
    /\ history = <<>>
    /\ suspended = {}
    /\ no_repeats = FALSE
    /\ use_randrange = FALSE
    /\ seed \in Seeds
    /\ alive = FALSE
    /\ child_descriptor = None
    /\ child = None
    /\ pre_choice = None
    /\ last = [op |-> "init", res |-> "ok"]

\* ---------------------------------------------------------- dump_to_neo4j
\* An entity of the graph is <<course, kind, i>>; course 0 is the data the
\* graph holds before the command runs.  graphs[c] is what serialize_course
\* returned for course c: <<number of nodes, number of relationships>>.

OldData == {<<0, "node", 1>>}

\* nodes, relationships of serialize_course, in the order handle adds them
Entities(c, n, r) ==
    [i \in 1..(n + r) |-> IF i <= n THEN <<c, "node", i>> ELSE <<c, "rel", i - n>>]

CourseEntities(c) == Entities(c, graphs[c][1], graphs[c][2])

\* what the graph holds of course c
Saved(c) == {e \in db : e[1] = c}

\* graph.delete_all()
DeleteAll ==
    /\ pc = "start"
    /\ db' = {}
    /\ idx' = 1
    /\ pc' = "loop"
    /\ UNCHANGED <<tx, attempts, failed, graphs, rvars>>

\* loop head: serialize_course, graph.begin()
BeginCourse ==
    /\ pc = "loop"
    /\ idx <= NumCourses
    /\ \E n \in 0..MaxEntities, r \in 0..MaxEntities :
         /\ (n < 2 => r = 0)
         /\ graphs' = [graphs EXCEPT ![idx] = <<n, r>>]
    /\ attempts' = [attempts EXCEPT ![idx] = @ + 1]
    /\ tx' = <<>>
    /\ pc' = "try"
    /\ UNCHANGED <<idx, db, failed, rvars>>

\* add_to_transaction: one transaction.create(entity); it may raise
Create ==
    /\ pc = "try"
    /\ Len(tx) < Len(CourseEntities(idx))
    /\ \/ /\ tx' = Append(tx, CourseEntities(idx)[Len(tx) + 1])
          /\ pc' = "try"
       \/ /\ pc' = "except"
          /\ UNCHANGED tx
    /\ UNCHANGED <<idx, db, attempts, failed, graphs, rvars>>

\* transaction.commit(): saves the whole transaction, or raises and saves nothing
Commit ==
    /\ pc = "try"
    /\ Len(tx) = Len(CourseEntities(idx))
    /\ \/ /\ db' = db \cup Range(tx)
          /\ tx' = <<>>
          /\ idx' = idx + 1
          /\ pc' = "loop"
       \/ /\ pc' = "except"
          /\ UNCHANGED <<db, tx, idx>>
    /\ UNCHANGED <<attempts, failed, graphs, rvars>>

\* an except clause that commits what the transaction holds
Rollback_Commits ==
    /\ pc = "except"
    /\ db' = db \cup Range(tx)
    /\ tx' = <<>>
    /\ failed' = failed \cup {idx}
    /\ idx' = idx + 1
    /\ pc' = "loop"
    /\ UNCHANGED <<attempts, graphs, rvars>>

\* except Exception: transaction.rollback(), then the next course
Rollback ==
    /\ pc = "except"
    /\ tx' = <<>>
    /\ failed' = failed \cup {idx}
    /\ idx' = idx + 1
    /\ pc' = "loop"
    /\ UNCHANGED <<db, attempts, graphs, rvars>>

\* the loop over all_courses is exhausted
Finish ==
    /\ pc = "loop"
    /\ idx > NumCourses
    /\ pc' = "done"
    /\ UNCHANGED <<idx, db, tx, attempts, failed, graphs, rvars>>

DInitIdle ==
    /\ pc = "idle"
    /\ idx = 0
    /\ db = {}
    /\ tx = <<>>
    /\ attempts = [c \in 1..NumCourses |-> 0]
    /\ failed = {}
    /\ graphs = [c \in 1..NumCourses |-> <<0, 0>>]

DInit ==
    /\ pc = "start"
    /\ idx = 0
    /\ db \in {OldData, {}}
    /\ tx = <<>>
    /\ attempts = [c \in 1..NumCourses |-> 0]
    /\ failed = {}
    /\ graphs = [c \in 1..NumCourses |-> <<0, 0>>]

RInitIdle ==
    /\ children = <<>>
    /\ choice = None
    /\ history = <<>>
    /\ suspended = {}
    /\ no_repeats = FALSE
    /\ use_randrange = FALSE
    /\ seed = NoSeed
    /\ alive = FALSE
    /\ child_descriptor = None
    /\ child = None
    /\ pre_choice = None
    /\ last = [op |-> "init", res |-> "ok"]

InitDump == RInitIdle /\ DInit

NextDump ==
    \/ DeleteAll
    \/ BeginCourse
    \/ Create
    \/ Commit
    \/ Rollback
    \/ Finish

SpecDump == InitDump /\ [][NextDump]_vars

Init == RInit /\ DInitIdle

StudentView == \E staff \in BOOLEAN : student_view(staff)

\* for a user who is not staff handle_ajax looks at neither dispatch nor data
HandleAjax ==
    \/ \E req \in Requests : handle_ajax(TRUE, req)
    \/ handle_ajax(FALSE, [dispatch |-> "next", k |-> "missing", v |-> 0])

Next ==
    \/ Instantiate
    \/ StudentView
    \/ HandleAjax
    \/ EditChildren
    \/ EditSettings
    \/ ResetChoice
    \/ WipeHistory

Spec == Init /\ [][Next]_vars

\* ----------------------------------------------------------------- claims

\* the last operation was pick_choice (a module instantiation)
Picked == last.op = "pick"

\* the children a fresh choice may fall on, stated from the settings:
\* not suspended by name and, under no_repeats, not in the history
IsEligible(u) == NameOf(u) \notin suspended /\ (no_repeats => ~InSeq(u, history))
Eligible == SelectSeq(children, IsEligible)

\* C1: a stored choice that is the url of a current child is left unchanged
\* by pick_choice, whatever no_repeats, use_randrange, seed, history and the
\* suspended list are.
C1_SameChildEveryTime ==
    (Picked /\ pre_choice # None /\ InSeq(pre_choice, children)) => choice = pre_choice

\* C1 witness: pick_choice ran on a stored choice whose child is suspended by
\* now and already in the history under no_repeats, and kept it.
C1_Witness ==
    /\ Picked
    /\ pre_choice # None
    /\ InSeq(pre_choice, children)
    /\ NameOf(pre_choice) \in suspended
    /\ no_repeats
    /\ InSeq(pre_choice, history)
    /\ Len(Eligible) > 0
    /\ choice = pre_choice

\* C2: on a live module get_child_descriptors returns the empty list when
\* choice is None and otherwise exactly the child whose url is choice.
C2_ChosenChildOnly ==
    alive => get_child_descriptors(child_descriptor)
               = (IF choice = None THEN <<>> ELSE <<choice>>)

\* C3: the existing graph data is deleted first; nodes are added before
\* relationships; when the command is done every course was attempted exactly
\* once and is saved either completely or, when a create or the commit
\* raised, not at all.
C3_OneTransactionPerCourse ==
    /\ pc # "start" => db \cap OldData = {}
    /\ \A i, j \in 1..Len(tx) : (i < j /\ tx[i][2] = "rel") => tx[j][2] = "rel"
    /\ \A c \in 1..NumCourses :
         /\ attempts[c] <= 1
         /\ Saved(c) \in {{}, Range(CourseEntities(c))}
         /\ c \in failed => Saved(c) = {}
         /\ pc = "done" => /\ attempts[c] = 1
                           /\ c \notin failed => Saved(c) = Range(CourseEntities(c))

\* C3 witness: the command is done, one course was rolled back after an error
\* and left nothing, a later course was saved with nodes and relationships.
C3_Witness ==
    /\ pc = "done"
    /\ \E c \in failed, d \in (1..NumCourses) \ failed :
         /\ c < d
         /\ graphs[c][1] > 0
         /\ Saved(c) = {}
         /\ graphs[d][2] > 0
         /\ Saved(d) = Range(CourseEntities(d))

\* C4: with no stored choice, a seed, use_randrange false and n >= 1 eligible
\* children, pick_choice sets choice to the eligible child at position
\* seed mod n in child order.
C4_SeededSelection ==
    (Picked /\ pre_choice = None /\ seed # NoSeed /\ ~use_randrange /\ Len(Eligible) >= 1)
        => choice = Eligible[(seed % Len(Eligible)) + 1]

\* C4 witness: a seeded pick whose position counts among the eligible
\* children only: the child at that position of the whole child list is
\* another one.
C4_Witness ==
    /\ Picked
    /\ pre_choice = None
    /\ seed # NoSeed
    /\ ~use_randrange
    /\ Len(Eligible) >= 1
    /\ Len(children) > Len(Eligible)
    /\ choice = Eligible[(seed % Len(Eligible)) + 1]
    /\ choice # children[(seed % Len(children)) + 1]

\* C5: when the stored choice is no longer the url of a current child,
\* pick_choice resets it and selects among the eligible children, ending with
\* child_descriptor set to the newly chosen child.
C5_ChildrenChangedReset ==
    (Picked /\ pre_choice # None /\ ~InSeq(pre_choice, children) /\ Len(Eligible) >= 1)
        => /\ InSeq(choice, Eligible)
           /\ alive
           /\ child_descriptor = choice

\* C6: under no_repeats and with no stored choice, pick_choice never chooses a
\* url of the history while an eligible child exists; with no eligible child
\* it takes the last entry of the history; with an empty history too, choice
\* stays None, child is None and student_view renders the placeholder.
C6_NoRepeats ==
    (Picked /\ pre_choice = None /\ no_repeats)
        => /\ Len(Eligible) >= 1 => (choice # None /\ ~InSeq(choice, history))
           /\ (Len(Eligible) = 0 /\ history # <<>>) => choice = history[Len(history)]
           /\ (Len(Eligible) = 0 /\ history = <<>>)
                => /\ choice = None
                   /\ alive
                   /\ child = None
                   /\ \A staff \in BOOLEAN : ViewResult(staff) = "placeholder"

\* C6 witness: a no_repeats pick with a non-suspended child already in the
\* history and another one outside of it, which was chosen.
C6_Witness ==
    /\ Picked
    /\ pre_choice = None
    /\ no_repeats
    /\ \E u \in Range(children) : InSeq(u, history) /\ NameOf(u) \notin suspended
    /\ Len(Eligible) >= 1
    /\ choice # None
    /\ ~InSeq(choice, history)

\* C7 as stated: whenever pick_choice starts with no stored choice and ends
\* with a choice set, the name of the chosen child is not suspended.
C7_NeverSuspended ==
    (Picked /\ pre_choice = None /\ choice # None) => NameOf(choice) \notin suspended

\* C7 amended: whenever pick_choice starts with no stored choice and an
\* eligible child exists, it sets a choice whose name is not suspended.
C7_NeverSuspendedWhileEligible ==
    (Picked /\ pre_choice = None /\ Len(Eligible) >= 1)
        => (choice # None /\ NameOf(choice) \notin suspended)

\* C7 witness: a pick with a suspended child among the children and an
\* eligible one, which was chosen.
C7_Witness ==
    /\ Picked
    /\ pre_choice = None
    /\ \E u \in Range(children) : NameOf(u) \in suspended
    /\ Len(Eligible) >= 1
    /\ choice # None
    /\ NameOf(choice) \notin suspended

====
